---- MODULE Spec2Model ----
(***************************************************************************)
(* Auto Driving Car Simulation (src/app.py): cars on a bounded grid execute *)
(* their command queues in lockstep, one command per car per step, and      *)
(* Simulation.run() detects the collisions.  The model follows main():      *)
(* the menu adds cars through the validating add_car(sim), runs the         *)
(* simulation one car turn at a time, and resets or restarts.               *)
(***************************************************************************)
EXTENDS Integers, Sequences, FiniteSets, TLC

\* ----------------------------- bounds ----------------------------------
\* width and height typed into create_simulation
GridW == 1
GridH == 1
\* total number of commands typed for the cars of one roster
MaxCmds == 2
\* width of the field and total number of commands in the three-car specification
ConvoyW == 2
ConvoyCmds == 3

\* car names typed by the user (general specification / three-car one)
Names == {"A", "B"}
ConvoyNames == {"A", "B", "C"}

\* -------------------------- helper functions ---------------------------
DIRECTIONS == <<"N", "E", "S", "W">>

DirectionSet == {DIRECTIONS[k] : k \in 1..4}

\* DIRECTIONS.index(direction), zero-based as in Python
DirIndex(direction) == (CHOOSE k \in 1..4 : DIRECTIONS[k] = direction) - 1

rotate_left(direction) == DIRECTIONS[((DirIndex(direction) - 1) % 4) + 1]

\* variant: the body of rotate_left copied unchanged
rotate_right_copied(direction) == DIRECTIONS[((DirIndex(direction) - 1) % 4) + 1]

rotate_right(direction) == DIRECTIONS[((DirIndex(direction) + 1) % 4) + 1]

move_forward(x, y, direction, w, h) ==
    IF direction = "N" /\ y + 1 <= h THEN <<x, y + 1>>
    ELSE IF direction = "S" /\ y - 1 >= 0 THEN <<x, y - 1>>
    ELSE IF direction = "E" /\ x + 1 <= w THEN <<x + 1, y>>
    ELSE IF direction = "W" /\ x - 1 >= 0 THEN <<x - 1, y>>
    ELSE <<x, y>>

\* is_valid_coordinates(x, y, sim): x and y are the typed numbers; a typed
\* string is all digits exactly when its number is not negative.  hasSim is
\* "sim is given"; a Simulation object is always truthy.
is_valid_coordinates(x, y, hasSim, w, h) ==
    LET positive_coordinates == x >= 0 /\ x > 0 /\ y >= 0 /\ y > 0
    IN  IF ~hasSim THEN positive_coordinates ELSE x <= w /\ y <= h

CommandChars == {"L", "R", "F"}

\* re.fullmatch(r"[LRF]+", commands)
is_valid_commands(commands) ==
    Len(commands) >= 1 /\ \A k \in 1..Len(commands) : commands[k] \in CommandChars

\* ------------------------------- Car -----------------------------------
Car(name, x, y, direction, commands) ==
    [name |-> name, x |-> x, y |-> y, direction |-> direction,
     commands |-> commands, collided |-> FALSE]

execute_command(car, command, w, h) ==
    IF car.collided THEN car
    ELSE IF command = "L" THEN [car EXCEPT !.direction = rotate_left(car.direction)]
    ELSE IF command = "R" THEN [car EXCEPT !.direction = rotate_right(car.direction)]
    ELSE IF command = "F" THEN
        LET p == move_forward(car.x, car.y, car.direction, w, h)
        IN  [car EXCEPT !.x = p[1], !.y = p[2]]
    ELSE car

\* ---------------------------- Simulation -------------------------------
VARIABLES
    width, height,   \* Simulation.width, Simulation.height
    cars,            \* Simulation.cars: the roster, in registration order
    car_names,       \* Simulation.car_names
    positions,       \* Simulation.positions: cell -> set of cars (roster indices);
                     \* its DOMAIN is the set of keys the defaultdict holds
    pc,              \* where main() is: "menu", "turn", "report", "post", "exit"
    step,            \* run(): step
    max_commands,    \* run(): max_commands
    idx,             \* run(): roster index of the car whose turn is next
    log,             \* collision lines printed by the current run()
    listing,         \* final lines printed by the current run()
    result,          \* what sim.run() returned to main(): "none", "True", "False"
    called,          \* history: the roster as it was when the current run() was called
    registered,      \* history: name, cell, direction and commands each car was added with
    last             \* history: what main() did last to its simulation:
                     \* "new", "add", "run", "reset", "exit"

vars == <<width, height, cars, car_names, positions, pc, step, max_commands,
          idx, log, listing, result, called, registered, last>>

Cell(car) == <<car.x, car.y>>

\* self.positions[key]: a defaultdict creates the key on first access
Touch(pos, key) ==
    IF key \in DOMAIN pos THEN pos
    ELSE [k \in (DOMAIN pos) \cup {key} |-> IF k = key THEN {} ELSE pos[k]]

EmptyPositions == [k \in {} |-> {}]

\* Simulation.__init__
NewSimulation(w, h) ==
    /\ width' = w
    /\ height' = h
    /\ cars' = <<>>
    /\ car_names' = {}
    /\ positions' = EmptyPositions

Init ==
    /\ is_valid_coordinates(GridW, GridH, FALSE, 0, 0)
    /\ width = GridW
    /\ height = GridH
    /\ cars = <<>>
    /\ car_names = {}
    /\ positions = EmptyPositions
    /\ pc = "menu"
    /\ step = 0
    /\ max_commands = 0
    /\ idx = 0
    /\ log = <<>>
    /\ listing = <<>>
    /\ result = "none"
    /\ called = <<>>
    /\ registered = <<>>
    /\ last = "new"

\* no run() is in progress and its output is off the screen
RunIdle ==
    /\ step' = 0
    /\ max_commands' = 0
    /\ idx' = 0
    /\ log' = <<>>
    /\ listing' = <<>>
    /\ called' = <<>>

\* Simulation.add_car
SimAddCar(name, x, y, direction, commands) ==
    LET car == Car(name, x, y, direction, commands)
        n   == Len(cars) + 1
        pos == Touch(positions, <<x, y>>)
    IN  /\ cars' = Append(cars, car)
        /\ car_names' = car_names \cup {name}
        /\ positions' = [pos EXCEPT ![<<x, y>>] = @ \cup {n}]

\* variant: the name is not looked up
NameAccepted_any(name) == TRUE

\* add_car(sim), first prompt loop: the name is accepted
NameAccepted(name) == name \notin car_names

\* add_car(sim), second prompt loop: the position is accepted
PositionAccepted(x, y, direction) ==
    /\ is_valid_coordinates(x, y, TRUE, width, height)
    /\ direction \in DirectionSet
    /\ <<x, y>> \notin DOMAIN positions

\* add_car(sim), menu choice '1', with the inputs that end its three prompt loops
AddCar(name, x, y, direction, commands) ==
    /\ pc = "menu"
    /\ NameAccepted(name)
    /\ PositionAccepted(x, y, direction)
    /\ is_valid_commands(commands)
    /\ SimAddCar(name, x, y, direction, commands)
    /\ registered' = Append(registered, [name |-> name, x |-> x, y |-> y,
                                         direction |-> direction, commands |-> commands])
    /\ result' = "none"
    /\ last' = "add"
    /\ RunIdle
    /\ UNCHANGED <<width, height, pc>>

\* add_car(sim) refusing a name: it prints the reason and asks again
RejectName(name) ==
    /\ pc = "menu"
    /\ ~NameAccepted(name)
    /\ UNCHANGED vars

\* add_car(sim) refusing a position: it prints the reason and asks again
RejectPosition(x, y, direction) ==
    /\ pc = "menu"
    /\ ~PositionAccepted(x, y, direction)
    /\ UNCHANGED vars

\* add_car(sim) refusing a command string: it prints the reason and asks again
RejectCommands(commands) ==
    /\ pc = "menu"
    /\ ~is_valid_commands(commands)
    /\ UNCHANGED vars

\* -------------------------- Simulation.run ----------------------------
Max(S) == CHOOSE m \in S : \A k \in S : k <= m

\* Python's order of the names in use: "A" < "B" < "C" < "D"
NameOrder == <<"A", "B", "C", "D">>

NameRank(name) == CHOOSE k \in 1..Len(NameOrder) : NameOrder[k] = name

\* variant: the list is left in the order the set was visited
SortedReverse_unsorted(names) == names

\* variant: the list is reversed, not sorted
SortedReverse_reversed(names) == [k \in 1..Len(names) |-> names[Len(names) + 1 - k]]

\* sorted(names, reverse = True)
RECURSIVE SortedReverse(_)
SortedReverse(names) ==
    IF names = <<>> THEN <<>>
    ELSE LET rest == SortedReverse(Tail(names))
             n    == Head(names)
             k    == Cardinality({j \in 1..Len(rest) : NameRank(rest[j]) >= NameRank(n)})
         IN  SubSeq(rest, 1, k) \o <<n>> \o SubSeq(rest, k + 1, Len(rest))

\* the orders in which "for collided_car in self.positions[...]" may visit a set
Orders(S) ==
    {f \in [1..Cardinality(S) -> S] : \A a, b \in 1..Cardinality(S) : f[a] = f[b] => a = b}

\* variant: one step short of the longest queue
MaxCommands_one_less(cs) == Max({Len(cs[k].commands) : k \in 1..Len(cs)}) - 1

\* line 258: max(len(car.commands) for car in self.cars)
MaxCommands(cs) == Max({Len(cs[k].commands) : k \in 1..Len(cs)})

\* variant: the empty run reports success
RunEmpty_true ==
    /\ pc = "menu"
    /\ cars = <<>>
    /\ result' = "True"
    /\ last' = "run"
    /\ RunIdle
    /\ UNCHANGED <<width, height, cars, car_names, positions, pc, registered>>

\* run() with no cars: print the warning, return False
RunEmpty ==
    /\ pc = "menu"
    /\ cars = <<>>
    /\ result' = "False"
    /\ last' = "run"
    /\ RunIdle
    /\ UNCHANGED <<width, height, cars, car_names, positions, pc, registered>>

\* run(), lines 256-260: show the cars, step = 0, max_commands
RunStart ==
    /\ pc = "menu"
    /\ cars # <<>>
    /\ max_commands' = MaxCommands(cars)
    /\ called' = cars
    /\ step' = IF max_commands' > 0 THEN 1 ELSE 0
    /\ idx' = 1
    /\ pc' = IF max_commands' > 0 THEN "turn" ELSE "report"
    /\ log' = <<>>
    /\ listing' = <<>>
    /\ result' = "none"
    /\ last' = "run"
    /\ UNCHANGED <<width, height, cars, car_names, positions, registered>>

\* variant: only the mover's line is printed
CollisionLines_once(name, collided_cars, x, y, s) ==
    << [subject |-> <<name>>, object |-> collided_cars, x |-> x, y |-> y, step |-> s] >>

\* the two lines printed for one collision (lines 284-285)
CollisionLines(name, collided_cars, x, y, s) ==
    << [subject |-> <<name>>, object |-> collided_cars, x |-> x, y |-> y, step |-> s],
       [subject |-> collided_cars, object |-> <<name>>, x |-> x, y |-> y, step |-> s] >>

\* variant: the collided flag is not tested before popping
TakesTurn_collided_too(car) == car.commands # <<>>

\* line 268: the car takes its turn
TakesTurn(car) == ~car.collided /\ car.commands # <<>>

\* variant: the mover is not left out
Occupants_with_self(pos, cell, i) == pos[cell] \cup {i}

\* lines 275-276: the cars of the cell other than the mover
Occupants(pos, cell, i) == pos[cell] \ {i}

\* variant: the flag is not set
MarkCollided_not(car) == car

\* variant: the flag is flipped instead of set
MarkCollided_flip(car) == [car EXCEPT !.collided = ~car.collided]

\* line 277: collided_car.collided = True
MarkCollided(car) == [car EXCEPT !.collided = TRUE]

\* variant: the mover is not entered into its cell
Reindex_remove_only(pos, prev, cell, i) ==
    [Touch(Touch(pos, prev), cell) EXCEPT ![prev] = @ \ {i}]

\* variant: the mover is not removed from its previous cell
Reindex_add_only(pos, prev, cell, i) ==
    [Touch(Touch(pos, prev), cell) EXCEPT ![cell] = @ \cup {i}]

\* lines 287-288: the mover leaves its previous cell and enters its cell
Reindex(pos, prev, cell, i) ==
    LET removed == [Touch(pos, prev) EXCEPT ![prev] = @ \ {i}]
    IN  [Touch(removed, cell) EXCEPT ![cell] = @ \cup {i}]

\* variant: the mover collides only with two or more cars
MoverCollides_two(command, collided_cars) == command = "F" /\ Len(collided_cars) > 1

\* line 282: does the mover itself collide
MoverCollides(command, collided_cars) == command = "F" /\ Len(collided_cars) > 0

\* the loops "for i in range(max_commands)" / "for car in self.cars" advance
Advance ==
    IF idx < Len(cars) THEN /\ idx' = idx + 1
                            /\ UNCHANGED <<step, pc>>
    ELSE IF step < max_commands THEN /\ idx' = 1
                                     /\ step' = step + 1
                                     /\ UNCHANGED pc
    ELSE /\ pc' = "report"
         /\ UNCHANGED <<idx, step>>

\* variant: the front command is read and left in the queue
Pop_peek(commands) == [command |-> Head(commands), rest |-> commands]

\* variant: pop() takes the last command
Pop_last(commands) ==
    [command |-> commands[Len(commands)], rest |-> SubSeq(commands, 1, Len(commands) - 1)]

\* line 269: car.commands.pop(0)
Pop(commands) == [command |-> Head(commands), rest |-> Tail(commands)]

\* lines 269-270: the car at idx once it has popped and executed its command
TurnMoved ==
    LET car == cars[idx]
        top == Pop(car.commands)
    IN  execute_command([car EXCEPT !.commands = top.rest], top.command, width, height)

\* lines 275-276: the cars the turn of the car at idx will visit
TurnOthers ==
    LET cell == Cell(TurnMoved)
    IN  Occupants(Touch(positions, cell), cell, idx)

\* lines 269-288 when the cell's set is visited in the given order: the roster,
\* the printed lines and the index after the turn of the car at idx
TurnOutcome(order) ==
    LET car     == cars[idx]
        prev    == Cell(car)
        command == Pop(car.commands).command
        moved   == TurnMoved
        cell    == Cell(moved)
        pos     == Touch(positions, cell)
        others  == TurnOthers
        collided_cars == SortedReverse([k \in 1..Len(order) |-> cars[order[k]].name])
        hit     == MoverCollides(command, collided_cars)
        final   == IF hit THEN MarkCollided(moved) ELSE moved
    IN  [cars |-> [k \in 1..Len(cars) |->
                      IF k \in others
                      THEN MarkCollided(IF k = idx THEN final ELSE cars[k])
                      ELSE IF k = idx THEN final ELSE cars[k]],
         log |-> IF hit
                 THEN log \o CollisionLines(car.name, collided_cars, moved.x, moved.y, step)
                 ELSE log,
         positions |-> Reindex(pos, prev, cell, idx)]

\* lines 266-288: the turn of the car at roster index idx in the current step
Turn ==
    /\ pc = "turn"
    /\ IF TakesTurn(cars[idx])
       THEN \E order \in Orders(TurnOthers) :
              LET out == TurnOutcome(order)
              IN  /\ cars' = out.cars
                  /\ log' = out.log
                  /\ positions' = out.positions
       ELSE UNCHANGED <<cars, log, positions>>
    /\ Advance
    /\ UNCHANGED <<width, height, car_names, max_commands, listing, result,
                   called, registered, last>>

\* variant: the collided cars are listed too
FinalLines_all(cs) ==
    [k \in 1..Len(cs) |->
        [name |-> cs[k].name, x |-> cs[k].x, y |-> cs[k].y, direction |-> cs[k].direction]]

\* lines 291-293: one line for every car that did not collide
FinalLines(cs) ==
    LET alive == SelectSeq(cs, LAMBDA c : ~c.collided)
    IN  [k \in 1..Len(alive) |->
            [name |-> alive[k].name, x |-> alive[k].x, y |-> alive[k].y,
             direction |-> alive[k].direction]]

\* lines 290-295: print the final positions, return True
FinalReport ==
    /\ pc = "report"
    /\ listing' = FinalLines(cars)
    /\ result' = "True"
    /\ pc' = "post"
    /\ UNCHANGED <<width, height, cars, car_names, positions, step, max_commands,
                   idx, log, called, registered, last>>

\* ------------------------------ main ----------------------------------
\* variant: the occupancy index is not cleared
SimReset_keeps_index ==
    /\ cars' = <<>>
    /\ car_names' = {}
    /\ positions' = positions

\* Simulation.reset
SimReset ==
    /\ cars' = <<>>
    /\ car_names' = {}
    /\ positions' = EmptyPositions

\* post-simulation choice '2': sim.reset(), back to the menu
PostReset ==
    /\ pc = "post"
    /\ SimReset
    /\ pc' = "menu"
    /\ registered' = <<>>
    /\ result' = "none"
    /\ last' = "reset"
    /\ RunIdle
    /\ UNCHANGED <<width, height>>

\* post-simulation choice that is none of '1', '2', '3': back to the menu
PostInvalid ==
    /\ pc = "post"
    /\ pc' = "menu"
    /\ result' = "none"
    /\ RunIdle
    /\ UNCHANGED <<width, height, cars, car_names, positions, registered, last>>

\* restart_program(): main() again, a new simulation of the same size
Restart ==
    /\ pc \in {"menu", "post"}
    /\ is_valid_coordinates(GridW, GridH, FALSE, 0, 0)
    /\ NewSimulation(GridW, GridH)
    /\ pc' = "menu"
    /\ registered' = <<>>
    /\ result' = "none"
    /\ last' = "new"
    /\ RunIdle

\* exit_program(): the process ends and its simulation with it
Exit ==
    /\ pc \in {"menu", "post"}
    /\ pc' = "exit"
    /\ SimReset
    /\ registered' = <<>>
    /\ result' = "none"
    /\ last' = "exit"
    /\ RunIdle
    /\ UNCHANGED <<width, height>>

\* --------------------------- specifications ---------------------------
RECURSIVE SumLen(_)
SumLen(regs) ==
    IF regs = <<>> THEN 0 ELSE Len(Head(regs).commands) + SumLen(Tail(regs))

\* command strings over an alphabet, at most n long
Strings(alphabet, n) == UNION {[1..k -> alphabet] : k \in 0..n}

\* numbers typed at the position prompt, one beyond the grid included
CoordInputs(dim) == 0..(dim + 1)

\* the valid command strings the model types
ValidCommands == Strings(CommandChars, MaxCmds)

\* the command strings add_car(sim) refuses that the model types
BadCommands == {<<>>, <<"X">>, <<"F", "X">>}

DirectionInputs == DirectionSet \cup {"X"}

Rejections(names) ==
    /\ pc = "menu"
    /\ \/ \E name \in names : RejectName(name)
       \/ \E x \in CoordInputs(GridW), y \in CoordInputs(GridH),
             direction \in DirectionInputs : RejectPosition(x, y, direction)
       \/ \E commands \in BadCommands : RejectCommands(commands)

Next ==
    \/ /\ pc = "menu"
       /\ \E commands \in ValidCommands :
            /\ SumLen(registered) + Len(commands) <= MaxCmds
            /\ \E name \in Names, x \in 0..GridW, y \in 0..GridH,
                  direction \in DirectionSet :
                    AddCar(name, x, y, direction, commands)
    \/ Rejections(Names)
    \/ RunEmpty
    \/ RunStart
    \/ Turn
    \/ FinalReport
    \/ PostReset
    \/ Restart
    \/ Exit

\* Sessions in which every run() is followed by a reset, a restart or the exit.
Spec == Init /\ [][Next]_vars

\* The same with the post-simulation choice that is none of '1', '2', '3': the
\* menu comes back with the cars as run() left them.
NextAgain ==
    \/ Next
    \/ PostInvalid

SpecAgain == Init /\ [][NextAgain]_vars

\* Three cars on a field ConvoyW wide: they start in the bottom row heading E
\* or W and are given the commands F and R, so that a third car can drive onto
\* a cell where two already stand.
ConvoyDirections == {"E", "W"}

ConvoyCommands == Strings({"F", "R"}, ConvoyCmds)

InitConvoy ==
    /\ is_valid_coordinates(ConvoyW, GridH, FALSE, 0, 0)
    /\ width = ConvoyW
    /\ height = GridH
    /\ cars = <<>>
    /\ car_names = {}
    /\ positions = EmptyPositions
    /\ pc = "menu"
    /\ step = 0
    /\ max_commands = 0
    /\ idx = 0
    /\ log = <<>>
    /\ listing = <<>>
    /\ result = "none"
    /\ called = <<>>
    /\ registered = <<>>
    /\ last = "new"

NextConvoy ==
    \/ /\ pc = "menu"
       /\ \E commands \in ConvoyCommands :
            /\ SumLen(registered) + Len(commands) <= ConvoyCmds
            /\ \E name \in ConvoyNames, x \in 0..ConvoyW, direction \in ConvoyDirections :
                    AddCar(name, x, 0, direction, commands)
    \/ RunStart
    \/ Turn
    \/ FinalReport
    \/ PostReset

SpecConvoy == InitConvoy /\ [][NextConvoy]_vars

\* The fields and the cars of the test suite: the four cars of
\* test_four_car_collision_and_success_run on its field of 10 x 10, and the
\* field of 5 x 5 with a car A at (1, 1) that is given the one command F.
TestFields == {<<5, 5>>, <<10, 10>>}

TestCarA == [name |-> "A", x |-> 1, y |-> 2, direction |-> "N",
             commands |-> <<"F", "F", "R", "F", "F", "F", "F", "R", "R", "L">>]

TestCarB == [name |-> "B", x |-> 7, y |-> 8, direction |-> "W",
             commands |-> <<"F", "F", "L", "F", "F", "F", "F", "F", "F", "F">>]

TestCarC == [name |-> "C", x |-> 5, y |-> 4, direction |-> "N",
             commands |-> <<"L", "R", "L", "R">>]

TestCarD == [name |-> "D", x |-> 0, y |-> 0, direction |-> "N",
             commands |-> <<"F", "F", "F">>]

TestCarShort == [name |-> "A", x |-> 1, y |-> 1, direction |-> "N", commands |-> <<"F">>]

TestCars == {TestCarA, TestCarB, TestCarC, TestCarD, TestCarShort}

InitTests ==
    /\ \E field \in TestFields :
          /\ is_valid_coordinates(field[1], field[2], FALSE, 0, 0)
          /\ width = field[1]
          /\ height = field[2]
    /\ cars = <<>>
    /\ car_names = {}
    /\ positions = EmptyPositions
    /\ pc = "menu"
    /\ step = 0
    /\ max_commands = 0
    /\ idx = 0
    /\ log = <<>>
    /\ listing = <<>>
    /\ result = "none"
    /\ called = <<>>
    /\ registered = <<>>
    /\ last = "new"

\* the cars of the tests are added in any order, then the simulation runs
NextTests ==
    \/ \E car \in TestCars :
          AddCar(car.name, car.x, car.y, car.direction, car.commands)
    \/ RunStart
    \/ Turn
    \/ FinalReport

SpecTests == InitTests /\ [][NextTests]_vars

\* Sessions in which the user also types numbers with a minus sign at the
\* position prompt of add_car(sim).
TypedCoords(dim) == (0 - 1)..(dim + 1)

NextTyped ==
    \/ /\ pc = "menu"
       /\ \E commands \in ValidCommands :
            /\ SumLen(registered) + Len(commands) <= MaxCmds
            /\ \E name \in Names, x \in TypedCoords(GridW), y \in TypedCoords(GridH),
                  direction \in DirectionSet :
                    AddCar(name, x, y, direction, commands)
    \/ /\ pc = "menu"
       /\ \E x \in TypedCoords(GridW), y \in TypedCoords(GridH),
             direction \in DirectionInputs : RejectPosition(x, y, direction)
    \/ RunStart
    \/ Turn
    \/ FinalReport
    \/ PostReset

SpecTyped == Init /\ [][NextTyped]_vars

\* ------------------------------ properties ----------------------------
Roster == 1..Len(cars)

StartCell(i) == <<registered[i].x, registered[i].y>>

\* the cell lies in [0,width) x [0,height)
InsideGrid(cell) == 0 <= cell[1] /\ cell[1] < width /\ 0 <= cell[2] /\ cell[2] < height

\* the cars the occupancy index holds on a cell, the car i left out
IndexedOthers(cell, i) ==
    IF cell \in DOMAIN positions THEN positions[cell] \ {i} ELSE {}

NamesIn(list) == {list[k] : k \in 1..Len(list)}

\* the car at idx is about to execute the command c in its turn
Executes(c) ==
    /\ pc = "turn"
    /\ ~cars[idx].collided
    /\ cars[idx].commands # <<>>
    /\ Head(cars[idx].commands) \in c

\* C1: a car registered inside [0,width) x [0,height) stays inside it in every
\* state of the run.
C1_StaysInsideGrid ==
    \A i \in Roster : InsideGrid(StartCell(i)) => InsideGrid(Cell(cars[i]))

\* C2: when a car that has not collided executes F and ends on a cell where the
\* index holds other cars, the car and every one of them are collided after the
\* turn and exactly two lines are printed, the car against the others and the
\* others against the car, both with that cell and the current step.
C2_Turn ==
    Executes({"F"}) =>
        LET cell   == Cell(cars'[idx])
            others == IndexedOthers(cell, idx)
            n      == Len(log)
        IN  others # {} =>
              /\ cars'[idx].collided
              /\ \A k \in others : cars'[k].collided
              /\ Len(log') = n + 2
              /\ SubSeq(log', 1, n) = log
              /\ log'[n + 1].subject = <<cars[idx].name>>
              /\ NamesIn(log'[n + 1].object) = {cars[k].name : k \in others}
              /\ Len(log'[n + 1].object) = Cardinality(others)
              /\ log'[n + 2].subject = log'[n + 1].object
              /\ log'[n + 2].object = <<cars[idx].name>>
              /\ \A r \in {n + 1, n + 2} :
                    log'[r].x = cell[1] /\ log'[r].y = cell[2] /\ log'[r].step = step

\* C2, last sentence: when run() has returned, two cars that stand on the same
\* cell are both collided and neither is in the final listing.
C2_Listing ==
    pc = "post" =>
        \A i, j \in Roster :
            (i # j /\ Cell(cars[i]) = Cell(cars[j])) =>
                /\ cars[i].collided
                /\ cars[j].collided
                /\ \A k \in 1..Len(listing) :
                      listing[k].name \notin {cars[i].name, cars[j].name}

\* C2: every F onto an occupied cell collides both ways and is reported twice,
\* and the cars that met are absent from the final listing.
C2_CollisionMarkedAndReported == [][C2_Turn]_vars /\ [](C2_Listing)

\* C2 witness: two cars drove onto the same cell, one line pair was printed
C2_Witness ==
    /\ pc = "post"
    /\ Len(cars) = 2
    /\ Len(log) = 2
    /\ Cell(cars[1]) = Cell(cars[2])
    /\ \A i \in Roster : cars[i].collided /\ Cell(cars[i]) # StartCell(i)
    /\ listing = <<>>

\* C3: once a car is collided it stays collided, and its position and its
\* heading never change again, whatever its queue still holds.
C3_CollidedIsFrozen ==
    [][\A i \in Roster :
          (i <= Len(cars') /\ cars[i].collided) =>
              /\ cars'[i].collided
              /\ Cell(cars'[i]) = Cell(cars[i])
              /\ cars'[i].direction = cars[i].direction]_vars

\* C3 witness: a run has ended with a collided car that still holds two commands
C3_Witness ==
    /\ pc = "post"
    /\ \E i \in Roster : cars[i].collided /\ Len(cars[i].commands) >= 2

\* C4: after every turn every car is in the index set of its own cell and in the
\* set of no other cell.
C4_IndexMatchesPositions ==
    \A i \in Roster :
        /\ Cell(cars[i]) \in DOMAIN positions
        /\ \A cell \in DOMAIN positions : i \in positions[cell] <=> cell = Cell(cars[i])

\* C4 witness: in the middle of a run a car stands away from its starting cell
C4_Witness ==
    /\ pc = "turn"
    /\ idx > 1
    /\ \E i \in Roster : Cell(cars[i]) # StartCell(i)

\* the longest queue the roster had when run() was called
LongestCalled(n) ==
    /\ \A i \in 1..Len(called) : Len(called[i].commands) <= n
    /\ \E i \in 1..Len(called) : Len(called[i].commands) = n

\* C5 as stated: run() returns success after maxLen steps and every queue is
\* empty when it returns.
C5_AllQueuesEmpty ==
    pc = "post" =>
        /\ result = "True"
        /\ LongestCalled(step)
        /\ \A i \in Roster : cars[i].commands = <<>>

\* C5 amended: run() returns success after maxLen steps, never taking more, and
\* when it returns every car that has not collided has an empty queue.
C5_UncollidedQueuesEmpty ==
    /\ pc \in {"turn", "report", "post"} => step <= max_commands
    /\ pc = "post" =>
        /\ result = "True"
        /\ LongestCalled(step)
        /\ \A i \in Roster : ~cars[i].collided => cars[i].commands = <<>>

\* C5 witness: run() has returned and a collided car is left with commands
C5_Witness ==
    /\ pc = "post"
    /\ \E i \in Roster : cars[i].collided /\ cars[i].commands # <<>>

\* C6: a car that moves F onto a cell on which no car stands, such as a cell an
\* earlier car of the roster left in the same step, does not collide: no
\* collided flag changes and nothing is printed.
C6_VacatedCellIsFree ==
    [][Executes({"F"}) =>
          LET cell == Cell(cars'[idx])
          IN  (cell # Cell(cars[idx]) /\ \A k \in Roster : Cell(cars[k]) # cell) =>
                /\ ~cars'[idx].collided
                /\ \A k \in Roster : cars'[k].collided = cars[k].collided
                /\ log' = log]_vars

\* C6 witness: in step 1 of a first run the second car has moved onto the cell
\* the first car started on and had left, and nobody collided
C6_Witness ==
    /\ Len(cars) = 2
    /\ called = [i \in Roster |-> Car(registered[i].name, registered[i].x, registered[i].y,
                                      registered[i].direction, registered[i].commands)]
    /\ step = 1
    /\ Cell(cars[2]) = StartCell(1)
    /\ Cell(cars[1]) # StartCell(1)
    /\ \A i \in Roster : ~cars[i].collided
    /\ log = <<>>

\* C7: a car that is collided when its turn comes skips the turn: its queue, its
\* position and its heading are as before.
C7_CollidedSkipsTurn ==
    [][(pc = "turn" /\ cars[idx].collided) =>
          /\ cars'[idx].commands = cars[idx].commands
          /\ Cell(cars'[idx]) = Cell(cars[idx])
          /\ cars'[idx].direction = cars[idx].direction]_vars

\* C7 witness: step 1 of a first run is over, the second car was hit on its cell
\* before its turn and still holds every command it was registered with
C7_Witness ==
    /\ pc = "report"
    /\ step = 1
    /\ Len(cars) = 2
    /\ called[2].commands = registered[2].commands
    /\ cars[2].collided
    /\ cars[2].commands = registered[2].commands
    /\ Cell(cars[2]) = StartCell(2)
    /\ Len(log) = 2
    /\ log[1].object = <<cars[2].name>>

\* no two cars were registered on the same cell
DistinctStarts ==
    \A i, j \in 1..Len(registered) : i # j => StartCell(i) # StartCell(j)

\* C8: no two cars being registered on the same cell, a turn that executes L or
\* R changes no collided flag and prints no collision line.
C8_RotationNeverCollides ==
    [][(DistinctStarts /\ Executes({"L", "R"})) =>
          /\ \A k \in Roster : cars'[k].collided = cars[k].collided
          /\ log' = log]_vars

\* C8 witness: with two cars on the grid one has turned on its cell
C8_Witness ==
    /\ pc = "turn"
    /\ Len(cars) = 2
    /\ DistinctStarts
    /\ \E i \in Roster :
          /\ cars[i].direction # called[i].direction
          /\ Cell(cars[i]) = Cell(called[i])
    /\ \A i \in Roster : ~cars[i].collided

\* the names are in descending order
Descending(list) ==
    \A a, b \in 1..Len(list) : a < b => NameRank(list[a]) > NameRank(list[b])

\* C9: when a car moves F onto a cell whose occupants are all collided already,
\* the car is marked collided and its two lines name every car on that cell, in
\* descending order of name.
C9_CollidedCellStillCollides ==
    [][Executes({"F"}) =>
          LET cell   == Cell(cars'[idx])
              others == {k \in Roster \ {idx} : Cell(cars[k]) = cell}
              n      == Len(log)
          IN  (others # {} /\ \A k \in others : cars[k].collided) =>
                /\ cars'[idx].collided
                /\ Len(log') = n + 2
                /\ NamesIn(log'[n + 1].object) = {cars[k].name : k \in others}
                /\ Len(log'[n + 1].object) = Cardinality(others)
                /\ Descending(log'[n + 1].object)
                /\ log'[n + 2].subject = log'[n + 1].object]_vars

\* C9 witness: a third car has driven onto the cell where two cars had collided
C9_Witness ==
    /\ Len(log) = 4
    /\ Len(log[1].object) = 1
    /\ Len(log[3].object) = 2
    /\ \A i \in Roster : cars[i].collided

\* C10: the final listing holds exactly the cars that are not collided when
\* run() returns, once each, in registration order, with their position and
\* heading.
C10_ListingIsTheUncollided ==
    pc = "post" =>
        LET alive == {i \in Roster : ~cars[i].collided}
        IN  /\ Len(listing) = Cardinality(alive)
            /\ \A i \in alive :
                  LET k == Cardinality({j \in alive : j <= i})
                  IN  listing[k] = [name |-> cars[i].name, x |-> cars[i].x,
                                    y |-> cars[i].y, direction |-> cars[i].direction]

\* C10 witness: run() has returned with two cars collided and a third one,
\* registered between them, listed after its turn to the right
C10_Witness ==
    /\ pc = "post"
    /\ Len(cars) = 3
    /\ cars[1].collided
    /\ ~cars[2].collided
    /\ cars[3].collided
    /\ Len(listing) = 1
    /\ cars[2].direction # registered[2].direction

\* a step on an empty roster: run() is not entered, and the step that calls
\* run() returns False with the simulation as it was
C11_Step ==
    cars = <<>> =>
        /\ pc' \notin {"turn", "report", "post"}
        /\ result' # "True"
        /\ last' = "run" =>
              /\ result' = "False"
              /\ cars' = cars
              /\ car_names' = car_names
              /\ positions' = positions
              /\ width' = width
              /\ height' = height
              /\ step' = 0
              /\ log' = <<>>
              /\ listing' = <<>>

\* C11: run() on a simulation without cars returns False, executes no step and
\* leaves the roster, the name set, the occupancy index and the bounds as they
\* were.
C11_EmptyRunChangesNothing ==
    [][C11_Step]_vars /\ [](result = "False" => (cars = <<>> /\ pc = "menu"))

\* C11 witness: run() has just returned False on the empty simulation
C11_Witness ==
    /\ last = "run"
    /\ result = "False"
    /\ cars = <<>>
    /\ car_names = {}
    /\ positions = EmptyPositions
    /\ step = 0

\* the four cars of the test in the order the test adds them
FourCars == <<TestCarA, TestCarB, TestCarC, TestCarD>>

CollisionAt54(subject, object) ==
    [subject |-> subject, object |-> object, x |-> 5, y |-> 4, step |-> 7]

\* C12: on the field of 10 x 10 with A, B, C and D added in this order, run()
\* prints "A collides with C", "C collides with A", "B collides with C, A" and
\* "C, A collides with B", all at (5, 4) at step 7, and then lists D at (0, 3)
\* heading N and no other car.
C12_FourCarRun ==
    (pc = "post" /\ width = 10 /\ height = 10 /\ registered = FourCars) =>
        /\ log = << CollisionAt54(<<"A">>, <<"C">>),
                    CollisionAt54(<<"C">>, <<"A">>),
                    CollisionAt54(<<"B">>, <<"C", "A">>),
                    CollisionAt54(<<"C", "A">>, <<"B">>) >>
        /\ listing = << [name |-> "D", x |-> 0, y |-> 3, direction |-> "N"] >>

\* C12 witness: run() has returned for the four cars on the field of 10 x 10
C12_Witness ==
    /\ pc = "post"
    /\ width = 10
    /\ height = 10
    /\ registered = FourCars
    /\ step = 10
    /\ Len(log) = 4

\* C13: reset() leaves the simulation as Simulation(width, height) constructs
\* it, with an empty roster, name set and occupancy index and the bounds it
\* had, so that add_car accepts again every name and every cell of the field
\* that was in use before.
C13_ResetIsFresh ==
    [][last' = "reset" =>
          /\ cars' = <<>>
          /\ car_names' = {}
          /\ positions' = EmptyPositions
          /\ width' = width
          /\ height' = height
          /\ \A name \in car_names : NameAccepted(name)'
          /\ \A cell \in DOMAIN positions :
                is_valid_coordinates(cell[1], cell[2], TRUE, width, height) =>
                    PositionAccepted(cell[1], cell[2], "N")']_vars

\* C13 witness: a simulation that held cars has just been reset
C13_Witness ==
    /\ last = "reset"
    /\ pc = "menu"
    /\ cars = <<>>
    /\ car_names = {}
    /\ positions = EmptyPositions
    /\ width = GridW
    /\ height = GridH

\* C14: every car add_car(sim) registers starts on a cell with 0 <= x <= width
\* and 0 <= y <= height on which no car of the roster stands; every other
\* position typed leaves the simulation as it was.
C14_StartsInsideOnFreeCell ==
    [][Len(cars') = Len(cars) + 1 =>
          LET car == cars'[Len(cars')]
          IN  /\ 0 <= car.x /\ car.x <= width
              /\ 0 <= car.y /\ car.y <= height
              /\ \A k \in Roster : Cell(cars[k]) # Cell(car)]_vars

\* C15: the cars of the roster have different names, and car_names is the set
\* of the names of the cars of the roster.
C15_NamesAreUnique ==
    /\ \A i, j \in Roster : i # j => cars[i].name # cars[j].name
    /\ car_names = {cars[i].name : i \in Roster}

\* C15 witness: a second car has been added to a roster whose first car has
\* been through a run, and the two have run together
C15_Witness ==
    /\ pc = "post"
    /\ Len(cars) = 2
    /\ called[1].commands = <<>>
    /\ registered[1].commands # <<>>
    /\ cars[1].name # cars[2].name
    /\ car_names = {cars[1].name, cars[2].name}

\* the heading a quarter turn clockwise
Clockwise(h) ==
    CASE h = "N" -> "E"
      [] h = "E" -> "S"
      [] h = "S" -> "W"
      [] h = "W" -> "N"

Headings == {"N", "E", "S", "W"}

\* the rotation laws at the heading h
RotationLaws(h) ==
    /\ rotate_left(h) \in Headings
    /\ rotate_right(h) \in Headings
    /\ rotate_left(rotate_right(h)) = h
    /\ rotate_right(rotate_left(h)) = h
    /\ rotate_left(rotate_left(rotate_left(rotate_left(h)))) = h
    /\ rotate_right(rotate_right(rotate_right(rotate_right(h)))) = h
    /\ rotate_right(h) = Clockwise(h)

\* a car that executes R (L) in its turn ends a quarter turn clockwise
\* (counter-clockwise) of its heading
C16_Turn ==
    /\ Executes({"R"}) => cars'[idx].direction = Clockwise(cars[idx].direction)
    /\ Executes({"L"}) => Clockwise(cars'[idx].direction) = cars[idx].direction

C18_TurnHasOneOutcome ==
    [][(pc = "turn" /\ TakesTurn(cars[idx])) =>
          \A order \in Orders(TurnOthers) :
              TurnOutcome(order) = [cars |-> cars', log |-> log', positions |-> positions']]_vars

\* C18 witness: run() has returned after a car drove onto a cell where two
\* cars stood, whose set can be visited in two orders
C18_Witness ==
    /\ pc = "post"
    /\ Len(cars) = 3
    /\ \E r \in 1..Len(log) : Len(log[r].subject) = 1 /\ Len(log[r].object) = 2

Min(a, b) == IF a <= b THEN a ELSE b

\* the number of turns the car i has had in the current run()
TurnsHad(i) == IF pc = "turn" /\ i >= idx THEN step - 1 ELSE step

\* the number of commands the car i has consumed in the current run()
Consumed(i) == Len(called[i].commands) - Len(cars[i].commands)

\* the turn goes to the cars in registration order, and the car whose turn it is
\* removes the front command of its queue if it takes the turn; no other queue
\* changes
C19_Turn ==
    /\ (pc = "menu" /\ pc' = "turn") => (idx' = 1 /\ step' = 1)
    /\ pc = "turn" =>
          /\ IF TakesTurn(cars[idx])
             THEN cars'[idx].commands = Tail(cars[idx].commands)
             ELSE cars'[idx].commands = cars[idx].commands
          /\ \A k \in Roster \ {idx} : cars'[k].commands = cars[k].commands
          /\ IF idx < Len(cars)
             THEN pc' = "turn" /\ idx' = idx + 1 /\ step' = step
             ELSE \/ pc' = "turn" /\ idx' = 1 /\ step' = step + 1
                  \/ pc' = "report" /\ step' = step

\* during and after run() the queue of a car is what is left of the queue it
\* was called with, and a car that has not collided has consumed one command
\* in each of its turns until its queue was empty
C19_Queues ==
    pc \in {"turn", "report", "post"} =>
        \A i \in Roster :
            /\ Consumed(i) >= 0
            /\ cars[i].commands =
                   SubSeq(called[i].commands, Consumed(i) + 1, Len(called[i].commands))
            /\ ~cars[i].collided =>
                   Consumed(i) = Min(TurnsHad(i), Len(called[i].commands))

\* C19: in each step the cars take their turns in registration order, a car
\* that takes its turn removes exactly the front command of its queue, no queue
\* grows or is reordered, and a car that has not collided by the end of step s
\* has consumed min(s, the length of its queue at the call) commands.
C19_OneCommandPerTurn == [][C19_Turn]_vars /\ [](C19_Queues)

\* C19 witness: run() has returned after two steps for two cars that did not
\* collide, the first called with one command and the second with two
C19_Witness ==
    /\ pc = "post"
    /\ step = 2
    /\ Len(cars) = 2
    /\ Len(called[1].commands) = 1
    /\ Len(called[2].commands) = 2
    /\ \A i \in Roster : ~cars[i].collided /\ cars[i].commands = <<>>

\* the cell one step ahead of (x, y) at the heading h
Ahead(x, y, h) ==
    CASE h = "N" -> <<x, y + 1>>
      [] h = "S" -> <<x, y - 1>>
      [] h = "E" -> <<x + 1, y>>
      [] h = "W" -> <<x - 1, y>>

\* one command applied to a position and heading: L and R rotate, F moves one
\* cell unless the cell ahead lies outside [0,width) x [0,height)
Applied(at, command) ==
    IF command = "R" THEN [at EXCEPT !.direction = Clockwise(at.direction)]
    ELSE IF command = "L"
    THEN [at EXCEPT !.direction = CHOOSE h \in Headings : Clockwise(h) = at.direction]
    ELSE LET dest == Ahead(at.x, at.y, at.direction)
         IN  IF InsideGrid(dest) THEN [at EXCEPT !.x = dest[1], !.y = dest[2]] ELSE at

\* the command string applied left to right
RECURSIVE Drive(_, _)
Drive(at, commands) ==
    IF commands = <<>> THEN at ELSE Drive(Applied(at, Head(commands)), Tail(commands))

\* C17: a car that is alone in the simulation, registered inside the grid, does
\* not collide, and when run() has returned it stands where its command
\* string, applied left to right from its starting cell and heading, takes it,
\* F being blocked at the boundary of the grid, and it is the one line of the
\* final listing.
C17_AloneFollowsItsCommands ==
    (pc = "post" /\ Len(cars) = 1 /\ InsideGrid(StartCell(1))) =>
        LET start == [x |-> registered[1].x, y |-> registered[1].y,
                      direction |-> registered[1].direction]
            end   == Drive(start, registered[1].commands)
        IN  /\ ~cars[1].collided
            /\ log = <<>>
            /\ cars[1].x = end.x
            /\ cars[1].y = end.y
            /\ cars[1].direction = end.direction
            /\ listing = << [name |-> cars[1].name, x |-> end.x, y |-> end.y,
                             direction |-> end.direction] >>

\* C20: one command applied to a car that has not collided and stands inside
\* the grid changes only what it is meant to: L and R the heading, by a quarter
\* turn, and not the cell; F the cell, to the cell ahead when that lies within
\* the bounds and not at all otherwise, and not the heading; the name and the
\* collided flag stay.
C20_CommandFrame ==
    (Executes(CommandChars) /\ InsideGrid(Cell(cars[idx]))) =>
        LET car     == cars[idx]
            command == Head(car.commands)
            after   == execute_command(car, command, width, height)
            at      == [x |-> car.x, y |-> car.y, direction |-> car.direction]
            want    == Applied(at, command)
        IN  /\ after.name = car.name
            /\ after.collided = car.collided
            /\ after.commands = car.commands
            /\ after.x = want.x
            /\ after.y = want.y
            /\ after.direction = want.direction
            /\ command \in {"L", "R"} =>
                  (Cell(after) = Cell(car) /\ after.direction # car.direction)
            /\ command = "F" => after.direction = car.direction

\* the cars other than i that stand on the cell of the car i
Sharing(i) == {j \in Roster \ {i} : Cell(cars[j]) = Cell(cars[i])}

\* C21: no two cars being registered on the same cell, after every turn a car
\* is collided exactly when another car stands on its cell: a cell with two or
\* more cars holds collided cars only, and every collided car has company.
C21_CollidedIffSharing ==
    DistinctStarts => \A i \in Roster : cars[i].collided <=> Sharing(i) # {}

\* C21 witness: in a run of three cars two have met on a cell and are collided,
\* the third has moved and stands alone, not collided
C21_Witness ==
    /\ pc \in {"turn", "report"}
    /\ Len(cars) = 3
    /\ DistinctStarts
    /\ \E i \in Roster :
          /\ ~cars[i].collided
          /\ Sharing(i) = {}
          /\ Cell(cars[i]) # StartCell(i)
          /\ \A j \in Roster \ {i} : cars[j].collided /\ Sharing(j) # {}

\* C22: at the menu add_car(sim) accepts every cell inside the grid on which
\* no car stands, also after a run() without a reset, when cars have left
\* cells or passed through them.
C22_RejectsOnlyOccupied ==
    pc = "menu" =>
        \A x \in 0..width, y \in 0..height :
            (InsideGrid(<<x, y>>) /\ \A k \in Roster : Cell(cars[k]) # <<x, y>>) =>
                PositionAccepted(x, y, "N")

\* the run() in progress or just returned was called on a roster that a
\* completed run() had left: every car collided or out of commands
RunAgain ==
    /\ pc \in {"turn", "report", "post"}
    /\ \A i \in 1..Len(called) : called[i].collided \/ called[i].commands = <<>>

\* when run() is called again right after a run(), it finds every car collided
\* or out of commands; the call, and every turn of such a run(), leaves the
\* cars and the occupancy index as they are and prints no collision line
C23_Step ==
    /\ (pc = "menu" /\ last = "run" /\ pc' \in {"turn", "report"}) =>
          /\ \A i \in Roster : cars[i].collided \/ cars[i].commands = <<>>
          /\ cars' = cars
          /\ positions' = positions
          /\ log' = <<>>
    /\ (RunAgain /\ pc \in {"turn", "report"}) =>
          (cars' = cars /\ positions' = positions /\ log' = <<>>)

\* C23: run() called again after a completed run(), with no reset and no car
\* added in between, returns True, prints no collision line and leaves the
\* position, heading, collided flag and queue of every car and the set of every
\* cell of the occupancy index unchanged.
C23_RunAgainChangesNothing ==
    [][C23_Step]_vars
    /\ [](RunAgain => (cars = called /\ log = <<>> /\ (pc = "post" => result = "True")))

\* C23 witness: the second run() has returned; it went through a step because
\* a collided car still holds a command
C23_Witness ==
    /\ RunAgain
    /\ pc = "post"
    /\ result = "True"
    /\ step >= 1
    /\ \E i \in Roster : cars[i].collided /\ cars[i].commands # <<>>

====
